---- MODULE Spec2Model ----
(***************************************************************************)
(* Polytunnel-PV: bypass diodes, bypassed cell strings and the assembly of *)
(* modules from the pv-modules file.                                       *)
(*                                                                         *)
(* Voltages, currents and powers are floats in the program; the model uses *)
(* integers (fixed units), for which +, * and max are exact.  Arrays are   *)
(* sequences, None is an option record with given = FALSE.                 *)
(***************************************************************************)
EXTENDS Integers, Sequences, FiniteSets, TLC

\* ---------------------------------------------------------------- bounds

\* Operations on the strings in one behaviour: calls of
\* BypassedCellString.calculate_iv_curve and reads of an attribute.
MaxCalls == 2

\* Entries of the pv-modules file parsed in one behaviour.
MaxModules == 2

\* Entries of one bypass_diodes list.
MaxDiodes == 2

\* Largest start_index or end_index of a diode entry.
MaxIndex == 1

\* Cells of a module that has cells.
MaxCells == 2

\* ------------------------------------------------------- value domains

\* Voltages one cell's solve may return at one current sample: deep reverse
\* bias or forward bias.
Volts == {-3, 1}

\* The string objects of one behaviour.
StringIds == {1, 2}

\* pv_cells lists of the first string under test: cell ids, in list order.
CellLists == {<<>>, <<0>>, <<0, 1>>, <<1, 0>>}

\* current_series arguments a caller passes (not monotonic).
CurrentGrids == {<<2, 0, 1>>}

\* The current grids a cell may derive on its own when it is given none.
DefaultGrids == {<<0, 1>>, <<0, 2>>}

\* voltage_series arguments a caller passes.
VoltageGrids == {<<-3, 1>>}

\* irradiance_array arguments (one value per cell id).
IrradianceArrays == {<<0, 1>>}

\* ambient_celsius_temperature arguments.
AmbientTemperatures == {25}

\* An optional array argument: None, or an array.
NoSeries == [given |-> FALSE, series |-> <<>>]

SomeSeries(s) == [given |-> TRUE, series |-> s]

\* ------------------------------------------------------------ the state

VARIABLES
    strings,            \* the BypassedCellString objects, by identity
    solve,              \* the external single-diode solver, as far as it was asked
    default_grid,       \* the grid each cell derived when it was given none
    pc,                 \* "idle", "cells" (the loop of line 117), "returned", "raised"
    self_id,            \* the string calculate_iv_curve runs on
    args,               \* the arguments of the running call
    loop,               \* index in pv_cells of the next cell of the loop
    cell_to_iv_series,  \* the local dict of line 116
    returned,           \* the tuple of line 143
    raised,             \* the exception that left the call
    unclamped,          \* combined_voltage_series of line 126, before line 131
    history,            \* what the caller got from each finished call
    ncalls,
    pv_modules,         \* the modules _parse_pv_modules has constructed so far
    parse_error,        \* the exception that ended _parse_pv_modules
    observed,           \* what the last attribute read of a string gave
    factory_attempts,   \* the calls of the thin-film factory, each with its outcome
    calculated,         \* the factory's modules a calculation was run on
    main_pc,            \* where main is: "solar", "irradiance", "select", "sweep",
                        \* "cells", "show", "done", "failed"
    parsed_args,        \* the parsed command line: scenario, regenerate
    weather_data,       \* what _parse_solar returned: a frame per location name
    files,              \* the files of auto_generated/, by location name
    files_at_start,     \* the same when main started
    solar_loop,         \* index in locations of the next location of line 596
    locations_with_weather_and_solar,
    io_log,             \* the reads and writes of cache files and the solar
                        \* positions computed, in the order they happened
    cellwise_irradiance_frames,
    scenario,           \* the scenario of line 701
    current_series,     \* the local of line 720, rebound at line 766
    voltage_series,     \* the local of line 728, rebound at line 766
    cell_loop,          \* index in pv_cells of the next cell of line 747
    iv_curves,          \* the I-V curves computed so far
    plots,              \* the calls of matplotlib so far
    main_error,         \* the exception that ended main
    cell_calls,         \* the calls of calculate_cell_iv_curve, with what was passed
    bars                \* the bars of lines 780-789: a cell_id and a height each

stringVars == <<strings, solve, default_grid, pc, self_id, args, loop,
                cell_to_iv_series, returned, raised, unclamped, history, ncalls>>

moduleVars == <<pv_modules, parse_error>>

readVars == <<observed>>

factoryVars == <<factory_attempts, calculated>>

mainVars == <<main_pc, parsed_args, weather_data, files, files_at_start, solar_loop,
              locations_with_weather_and_solar, io_log, cellwise_irradiance_frames,
              scenario, current_series, voltage_series, cell_loop, iv_curves, plots,
              main_error, cell_calls, bars>>

\* What main keeps of its per-cell loop and of its bar chart.
loopLog == <<cell_calls, bars>>

vars == <<stringVars, moduleVars, readVars, factoryVars, mainVars>>

\* What the methods of BypassedCellString leave alone.
besideString == <<moduleVars, readVars, factoryVars, mainVars>>

\* What _parse_pv_modules leaves alone.
besideModules == <<stringVars, readVars, factoryVars, mainVars>>

\* What main leaves alone after the input files are parsed.
besideMain == <<stringVars, moduleVars, readVars, factoryVars>>

\* ------------------------------------------------------ the data model

\* The dataclass BypassDiode: three fields, no validation of any.
BypassDiode(bypass_voltage, end_index, start_index) ==
    [bypass_voltage |-> bypass_voltage,
     end_index |-> end_index,
     start_index |-> start_index]

\* A PV cell, as far as the string uses it: its identity.
PVCell(cell_id) == [cell_id |-> cell_id]

\* The dataclass BypassedCellString: two fields, no validation.
BypassedCellString(bypass_diode, pv_cells) ==
    [bypass_diode |-> bypass_diode, pv_cells |-> pv_cells]

CellsOf(ids) == [i \in 1..Len(ids) |-> PVCell(ids[i])]

\* Exceptions.  type "None" is no exception.
NoError == [type |-> "None", cell_id |-> -1, sample |-> 0]

TypeError == [type |-> "TypeError", cell_id |-> -1, sample |-> 0]

KeyError == [type |-> "KeyError", cell_id |-> -1, sample |-> 0]

Exception == [type |-> "Exception", cell_id |-> -1, sample |-> 0]

ConfigurationError == [type |-> "ConfigurationError", cell_id |-> -1, sample |-> 0]

ValueError == [type |-> "ValueError", cell_id |-> -1, sample |-> 0]

ModelConvergenceError(cell_id, sample) ==
    [type |-> "ModelConvergenceError", cell_id |-> cell_id, sample |-> sample]

\* No arrays: the value of `returned` while nothing was returned.
NoArrays == [current |-> <<>>, power |-> <<>>, voltage |-> <<>>]

\* --------------------------------------------- the cell and its solver

\* One solve of the single-diode equation at one current sample: a voltage,
\* or no convergence.
SolveOutcomes ==
    {[ok |-> TRUE, v |-> v] : v \in Volts} \cup {[ok |-> FALSE, v |-> 0]}

\* What one solve depends on: the cell, the conditions and the current.
SolveKey(cell, a, i) ==
    <<cell.cell_id, a.ambient_celsius_temperature, a.irradiance_array, i>>

\* What a cell's own grid depends on: the cell, the conditions and the
\* voltage sweep it was given.
GridKey(cell, a) ==
    <<cell.cell_id, a.ambient_celsius_temperature, a.irradiance_array,
      a.voltage_series>>

\* Least index of `grid` whose solve did not converge (0: all converged).
FirstFailure(cell, a, grid, sol) ==
    LET bad == {i \in 1..Len(grid) : ~sol[SolveKey(cell, a, grid[i])].ok}
    IN  IF bad = {} THEN 0 ELSE CHOOSE i \in bad : \A j \in bad : i <= j

\* PVCell.calculate_iv_curve on the current grid `grid`: (current, power,
\* voltage) of equal length with power = current * voltage, or the
\* convergence error naming the cell and the sample.
PVCellCalculateIVCurve(cell, a, grid, sol) ==
    LET bad == FirstFailure(cell, a, grid, sol)
        voltage == [i \in 1..Len(grid) |-> sol[SolveKey(cell, a, grid[i])].v]
    IN  IF bad # 0
        THEN [ok |-> FALSE, error |-> ModelConvergenceError(cell.cell_id, bad),
              current |-> <<>>, power |-> <<>>, voltage |-> <<>>]
        ELSE [ok |-> TRUE, error |-> NoError,
              current |-> grid,
              power |-> [i \in 1..Len(grid) |-> grid[i] * voltage[i]],
              voltage |-> voltage]

\* ------------------------------ BypassedCellString.calculate_iv_curve

\* The arguments of one call.
CallArguments ==
    [ambient_celsius_temperature : AmbientTemperatures,
     irradiance_array : IrradianceArrays,
     current_series : {NoSeries} \cup {SomeSeries(g) : g \in CurrentGrids},
     voltage_series : {NoSeries} \cup {SomeSeries(g) : g \in VoltageGrids}]

\* The arguments while no call runs.
NoCall ==
    [ambient_celsius_temperature |-> 0, irradiance_array |-> <<>>,
     current_series |-> NoSeries, voltage_series |-> NoSeries]

\* The local dict of line 116: empty at every call.
FreshDict == <<>>

\* dict[key] = value.
DictSet(dict, key, value) ==
    [k \in DOMAIN dict \cup {key} |-> IF k = key THEN value ELSE dict[k]]

\* A bug: the cell's call wrapped in try/except, a cell that failed standing
\* in the sum with zero volts.
CellCallSubstituting(cell, a, grid, sol) ==
    LET out == PVCellCalculateIVCurve(cell, a, grid, sol)
    IN  IF out.ok THEN out
        ELSE [ok |-> TRUE, error |-> NoError, current |-> grid,
              power |-> [i \in 1..Len(grid) |-> 0],
              voltage |-> [i \in 1..Len(grid) |-> 0]]

\* The call of lines 118-123: the cell's result, its exception included; no
\* try/except surrounds it.
CellCall(cell, a, grid, sol) == PVCellCalculateIVCurve(cell, a, grid, sol)

\* A bug: the cell's error caught and a bare error raised in its place.
LeavesCallRewrapped(error) ==
    [type |-> "ModelConvergenceError", cell_id |-> -1, sample |-> 0]

\* The exception that leaves calculate_iv_curve when a cell raised `error`:
\* nothing catches or wraps it.
LeavesCall(error) == error

\* 0 + array of Python's sum(): numpy broadcasts the start value.
ScalarPlus(k, series) == [i \in 1..Len(series) |-> k + series[i]]

\* array + array, elementwise.
SeriesPlus(a, b) == [i \in 1..Len(a) |-> a[i] + b[i]]

RECURSIVE SumVoltages(_, _, _)
\* sum() over the first k cells of pv_cells, in list order, of element [2]
\* (the voltage) of each cell's tuple.
SumVoltages(dict, cells, k) ==
    IF k = 1
    THEN ScalarPlus(0, dict[cells[1]].voltage)
    ELSE SeriesPlus(SumVoltages(dict, cells, k - 1), dict[cells[k]].voltage)

\* A bug: the voltage of the first cell taken for the string's.
CombinedVoltageFirstCellOnly(dict, cells) ==
    ScalarPlus(0, dict[cells[1]].voltage)

\* Lines 126-128.
CombinedVoltageSeries(dict, cells) == SumVoltages(dict, cells, Len(cells))

\* A bug: min for max.
PyMin(a, b) == IF b < a THEN b ELSE a

\* Python's max(a, b): b only when b > a.
PyMax(a, b) == IF b > a THEN b ELSE a

\* A bug: the clamped entries collected back to front.
BypassReversed(series, bypass_voltage) ==
    [i \in 1..Len(series) |->
        IF bypass_voltage > series[Len(series) + 1 - i]
        THEN bypass_voltage ELSE series[Len(series) + 1 - i]]

\* Lines 131-136: every entry, in order, against the diode's voltage.
Bypass(series, bypass_voltage) ==
    [i \in 1..Len(series) |-> PyMax(series[i], bypass_voltage)]

\* Line 140: the current of the first cell of the list.
ReturnedCurrent(dict, cells) == dict[cells[1]].current

\* Lines 139-141: current * voltage, elementwise.
CombinedPowerSeries(current, voltage) ==
    [i \in 1..Len(voltage) |-> current[i] * voltage[i]]

\* The voltage returned: the clamped sum.
StringVoltage(dict, cells, bypass_voltage) ==
    Bypass(CombinedVoltageSeries(dict, cells), bypass_voltage)

\* A bug: the power taken from the sum before the clamp.
StringPowerUnclamped(dict, cells, bypass_voltage) ==
    CombinedPowerSeries(ReturnedCurrent(dict, cells),
                        CombinedVoltageSeries(dict, cells))

\* The power returned: from the clamped voltage.
StringPower(dict, cells, bypass_voltage) ==
    CombinedPowerSeries(ReturnedCurrent(dict, cells),
                        StringVoltage(dict, cells, bypass_voltage))

\* A bug: the cells consumed (popped off the list) while they are summed.
SelfAfterCallPopped(s) ==
    [s EXCEPT !.pv_cells = SubSeq(@, 1, Len(@) - 1)]

\* The string after a call on it: the method assigns to no field of self,
\* of the diode or of a cell.
SelfAfterCall(s) == s

\* ------------------------------ breakdown_voltage, cell_id, __hash__

\* What evaluating an attribute gives: a value, or the exception it raised.
Value(v) == [ok |-> TRUE, value |-> v, error |-> NoError]

Raises(e) == [ok |-> FALSE, value |-> 0, error |-> e]

\* The property breakdown_voltage (line 74).
BreakdownVoltage(s) == Value(s.bypass_diode.bypass_voltage)

\* The list comprehension of line 86.
CellIds(s) == [i \in 1..Len(s.pv_cells) |-> s.pv_cells[i].cell_id]

RECURSIVE MinOfFirst(_, _)
\* The builtin min over the first k elements of a list, k >= 1: the running
\* least element, replaced only by a strictly smaller one.
MinOfFirst(list, k) ==
    IF k = 1 THEN list[1]
    ELSE LET m == MinOfFirst(list, k - 1)
         IN  IF list[k] < m THEN list[k] ELSE m

\* The builtin min of a list: ValueError on the empty list.
ListMin(list) ==
    IF Len(list) = 0 THEN Raises(ValueError) ELSE Value(MinOfFirst(list, Len(list)))

\* cell_id as the docstring of line 78 words it: the first cell's.
CellIdOfFirstCell(s) ==
    IF Len(s.pv_cells) = 0 THEN Raises(ValueError) ELSE Value(s.pv_cells[1].cell_id)

\* The property cell_id (line 86).
CellId(s) == ListMin(CellIds(s))

\* The modulus of the hash of a number on a build of 32-bit words, 2^31 - 1;
\* cell ids below it hash the same under the 2^61 - 1 of a 64-bit build.
HashModulus == 2147483647

\* The builtin hash of an integer: the number reduced by the modulus with
\* its sign kept, and -2 in the place of -1.
PyHash(n) ==
    LET magnitude == (IF n < 0 THEN -n ELSE n) % HashModulus
        reduced == IF n < 0 THEN -magnitude ELSE magnitude
    IN  IF reduced = -1 THEN -2 ELSE reduced

\* __hash__ of the last cell of the list.
HashOfLastCell(s) ==
    IF Len(s.pv_cells) = 0 THEN Raises(ValueError)
    ELSE Value(PyHash(s.pv_cells[Len(s.pv_cells)].cell_id))

\* __hash__ (line 94): the hash of cell_id, or the exception cell_id raised.
Hash(s) == IF CellId(s).ok THEN Value(PyHash(CellId(s).value)) ELSE CellId(s)

RECURSIVE SortedInsert(_, _)
\* A cell put in its place in a list of cells in ascending order of cell_id.
SortedInsert(cells, cell) ==
    IF Len(cells) = 0 THEN <<cell>>
    ELSE IF cell.cell_id < cells[Len(cells)].cell_id
         THEN Append(SortedInsert(SubSeq(cells, 1, Len(cells) - 1), cell),
                     cells[Len(cells)])
         ELSE Append(cells, cell)

RECURSIVE SortedCells(_)
SortedCells(cells) ==
    IF Len(cells) = 0 THEN <<>>
    ELSE SortedInsert(SortedCells(SubSeq(cells, 1, Len(cells) - 1)), cells[Len(cells)])

\* The string after an attribute that sorts pv_cells in place.
SelfAfterReadSorted(s) == [s EXCEPT !.pv_cells = SortedCells(@)]

\* The string after breakdown_voltage, cell_id or __hash__ was evaluated on
\* it: lines 74, 86 and 94 assign to nothing, and line 86 builds a new list.
SelfAfterRead(s) == s

\* Nothing evaluated yet.
NoRead == [op |-> "none", sid |-> 0, result |-> Value(0)]

\* --scenario not given: the default None of line 194.
NoScenario == [given |-> FALSE, name |-> ""]

\* The local scenario of line 701 not bound.
NotSelected == [given |-> FALSE, index |-> 0]

ArgumentError == [type |-> "ArgumentError", cell_id |-> -1, sample |-> 0]

\* main not started.
MainIdle ==
    /\ main_pc = "done"
    /\ parsed_args = [scenario |-> NoScenario, regenerate |-> FALSE]
    /\ weather_data = <<>>
    /\ files = <<>>
    /\ files_at_start = <<>>
    /\ solar_loop = 1
    /\ locations_with_weather_and_solar = <<>>
    /\ io_log = <<>>
    /\ cellwise_irradiance_frames = <<>>
    /\ scenario = NotSelected
    /\ current_series = <<>>
    /\ voltage_series = <<>>
    /\ cell_loop = 1
    /\ iv_curves = 0
    /\ plots = 0
    /\ main_error = NoError
    /\ cell_calls = <<>>
    /\ bars = <<>>

\* The factory not called yet.
FactoryIdle ==
    /\ factory_attempts = <<>>
    /\ calculated = {}

\* The strings of one behaviour: a string behind a -2 V diode whose cell
\* list varies (empty, one cell, two cells in either order), and a one-cell
\* string behind a diode of positive voltage that shares cell 1 with it.
\* The dataclasses accept each of them.
StringsUnderTest ==
    {<<BypassedCellString(BypassDiode(-2, 1, 0), CellsOf(ids)),
       BypassedCellString(BypassDiode(1, 1, 1), CellsOf(<<1>>))>> :
        ids \in CellLists}

Init ==
    /\ strings \in StringsUnderTest
    /\ solve = <<>>
    /\ default_grid = <<>>
    /\ pc = "idle"
    /\ self_id = 1
    /\ args = NoCall
    /\ loop = 1
    /\ cell_to_iv_series = <<>>
    /\ returned = NoArrays
    /\ raised = NoError
    /\ unclamped = <<>>
    /\ history = <<>>
    /\ ncalls = 0
    /\ pv_modules = <<>>
    /\ parse_error = NoError
    /\ observed = NoRead
    /\ FactoryIdle
    /\ MainIdle

\* A caller calls calculate_iv_curve on a string (lines 96-116).
Call(sid, a) ==
    /\ pc = "idle"
    /\ ncalls < MaxCalls
    /\ ncalls' = ncalls + 1
    /\ self_id' = sid
    /\ args' = a
    /\ loop' = 1
    /\ cell_to_iv_series' = FreshDict
    /\ returned' = NoArrays
    /\ raised' = NoError
    /\ unclamped' = <<>>
    /\ pc' = "cells"
    /\ UNCHANGED <<strings, solve, default_grid, history>>
    /\ UNCHANGED besideString

\* One iteration of the loop of lines 117-123: the cell computes its curve
\* on the grid it is given, or on its own.  The solver answers what it was
\* not asked before and repeats what it was.
CellStep ==
    /\ pc = "cells"
    /\ loop <= Len(strings[self_id].pv_cells)
    /\ LET cell == strings[self_id].pv_cells[loop]
           gk == GridKey(cell, args)
           grids == IF args.current_series.given
                    THEN {args.current_series.series}
                    ELSE IF gk \in DOMAIN default_grid
                         THEN {default_grid[gk]}
                         ELSE DefaultGrids
       IN  \E grid \in grids :
             LET asked == {SolveKey(cell, args, grid[i]) : i \in 1..Len(grid)}
             IN  \E answer \in [asked \ DOMAIN solve -> SolveOutcomes] :
                   /\ solve' = [k \in DOMAIN solve \cup asked |->
                                   IF k \in DOMAIN solve THEN solve[k]
                                   ELSE answer[k]]
                   /\ default_grid' = IF args.current_series.given
                                      THEN default_grid
                                      ELSE DictSet(default_grid, gk, grid)
                   /\ LET out == CellCall(cell, args, grid, solve')
                      IN  IF out.ok
                          THEN /\ cell_to_iv_series' =
                                     DictSet(cell_to_iv_series, cell, out)
                               /\ loop' = loop + 1
                               /\ UNCHANGED <<pc, raised>>
                          ELSE /\ pc' = "raised"
                               /\ raised' = LeavesCall(out.error)
                               /\ UNCHANGED <<loop, cell_to_iv_series>>
    /\ UNCHANGED <<strings, self_id, args, returned, unclamped, history, ncalls>>
    /\ UNCHANGED besideString

\* Lines 125-143 after the loop: sum, clamp, power, return.  With no cell,
\* sum() is the int 0 and line 134 iterates over it: TypeError.
Finish ==
    /\ pc = "cells"
    /\ loop > Len(strings[self_id].pv_cells)
    /\ LET s == strings[self_id]
           bv == s.bypass_diode.bypass_voltage
       IN  IF Len(s.pv_cells) = 0
           THEN /\ pc' = "raised"
                /\ raised' = TypeError
                /\ UNCHANGED <<returned, unclamped>>
           ELSE /\ pc' = "returned"
                /\ unclamped' = CombinedVoltageSeries(cell_to_iv_series, s.pv_cells)
                /\ returned' =
                     [current |-> ReturnedCurrent(cell_to_iv_series, s.pv_cells),
                      power |-> StringPower(cell_to_iv_series, s.pv_cells, bv),
                      voltage |-> StringVoltage(cell_to_iv_series, s.pv_cells, bv)]
                /\ UNCHANGED raised
    /\ strings' = [strings EXCEPT ![self_id] = SelfAfterCall(@)]
    /\ UNCHANGED <<solve, default_grid, self_id, args, loop, cell_to_iv_series,
                   history, ncalls>>
    /\ UNCHANGED besideString

\* What the caller holds of a finished call.
Outcome == [pc |-> pc, returned |-> returned, raised |-> raised]

\* The caller takes the result (or the exception) and goes on; the frame of
\* the call is gone.
Resume ==
    /\ pc \in {"returned", "raised"}
    /\ history' = IF <<self_id, args>> \in DOMAIN history
                  THEN history
                  ELSE DictSet(history, <<self_id, args>>, Outcome)
    /\ pc' = "idle"
    /\ self_id' = 1
    /\ args' = NoCall
    /\ loop' = 1
    /\ cell_to_iv_series' = <<>>
    /\ returned' = NoArrays
    /\ raised' = NoError
    /\ unclamped' = <<>>
    /\ UNCHANGED <<strings, solve, default_grid, ncalls>>
    /\ UNCHANGED besideString

Next ==
    \/ \E sid \in StringIds, a \in CallArguments : Call(sid, a)
    \/ CellStep
    \/ Finish
    \/ Resume

Spec == Init /\ [][Next]_vars

\* ------------------------------------------------- _parse_pv_modules

\* One entry of a bypass_diodes list of the pv-modules file: the keys it
\* holds and their values (0 for a key it does not hold).
DiodeEntries ==
    [keys : {{"bypass_voltage", "end_index", "start_index"}},
     bypass_voltage : {-1, 1},
     end_index : 0..MaxIndex,
     start_index : 0..MaxIndex]
    \cup {[keys |-> {"bypass_voltage", "end_index"},
           bypass_voltage |-> -1, end_index |-> 1, start_index |-> 0]}

\* The bypass_diodes lists of the file: up to MaxDiodes entries.
DiodeEntryLists ==
    UNION {[1..n -> DiodeEntries] : n \in 0..MaxDiodes}

\* One entry of the pv-modules file.  has_bypass_diodes: the entry holds the
\* key bypass_diodes.  n_cells: the cell count it gives the constructor.
ModuleEntries ==
    [type : {"missing", "thin_film"},
     polytunnel_curve : {"known", "unknown"},
     cell_type : {"missing", "user_defined", "pvlib", "unknown"},
     has_bypass_diodes : {TRUE},
     bypass_diodes : DiodeEntryLists,
     n_cells : {0, MaxCells}]
    \cup
    [type : {"missing", "thin_film"},
     polytunnel_curve : {"known", "unknown"},
     cell_type : {"missing", "user_defined", "pvlib", "unknown"},
     has_bypass_diodes : {FALSE},
     bypass_diodes : {<<>>},
     n_cells : {0, MaxCells}]

\* BypassDiode(**entry): the dataclass takes exactly its three keywords and
\* checks none of the values.
DiodeFromEntry(entry) ==
    BypassDiode(entry.bypass_voltage, entry.end_index, entry.start_index)

\* Lines 331-335: one diode per entry of the list, none without the key.
BypassDiodesOf(entry) ==
    IF entry.has_bypass_diodes
    THEN [k \in 1..Len(entry.bypass_diodes) |->
             DiodeFromEntry(entry.bypass_diodes[k])]
    ELSE <<>>

\* BypassDiode(**entry) raises TypeError for an entry that lacks a keyword.
DiodeEntriesWellFormed(entry) ==
    \A k \in 1..Len(entry.bypass_diodes) :
        entry.bypass_diodes[k].keys = {"bypass_voltage", "end_index", "start_index"}

\* The module constructor: cells 0..N-1 in physical order and the diodes it
\* is given.
CurvedPVModule(n_cells, bypass_diodes) ==
    [pv_cells |-> [i \in 1..n_cells |-> PVCell(i - 1)],
     bypass_diodes |-> bypass_diodes]

\* The constructor refuses a module without cells (ConfigurationError).
ConstructorRejects(n_cells) == n_cells <= 0

\* The exception _construct_pv_module ends with on `entry`, NoError when it
\* returns a module: the checks of lines 291-346 in their order.
ConstructError(entry) ==
    IF entry.type = "missing" THEN KeyError
    ELSE IF entry.polytunnel_curve = "unknown" THEN KeyError
    ELSE IF entry.cell_type = "missing" THEN KeyError
    ELSE IF entry.cell_type = "unknown" THEN Exception
    ELSE IF ~DiodeEntriesWellFormed(entry) THEN TypeError
    ELSE IF ConstructorRejects(entry.n_cells) THEN ConfigurationError
    ELSE NoError

\* The specification of module parsing starts with nothing parsed; the
\* strings play no part in it.
InitModules ==
    /\ strings = <<BypassedCellString(BypassDiode(-2, 1, 0), CellsOf(<<0, 1>>)),
                   BypassedCellString(BypassDiode(1, 1, 1), CellsOf(<<1>>))>>
    /\ solve = <<>>
    /\ default_grid = <<>>
    /\ pc = "idle"
    /\ self_id = 1
    /\ args = NoCall
    /\ loop = 1
    /\ cell_to_iv_series = <<>>
    /\ returned = NoArrays
    /\ raised = NoError
    /\ unclamped = <<>>
    /\ history = <<>>
    /\ ncalls = 0
    /\ pv_modules = <<>>
    /\ parse_error = NoError
    /\ observed = NoRead
    /\ FactoryIdle
    /\ MainIdle

\* _construct_pv_module on the next entry of the file (one element of the
\* list comprehension of line 348): the module joins the list, or the
\* exception ends the parse.
ConstructPVModule(entry) ==
    /\ parse_error = NoError
    /\ Len(pv_modules) < MaxModules
    /\ IF ConstructError(entry) = NoError
       THEN /\ pv_modules' = Append(pv_modules,
                                 CurvedPVModule(entry.n_cells, BypassDiodesOf(entry)))
            /\ UNCHANGED parse_error
       ELSE /\ parse_error' = ConstructError(entry)
            /\ UNCHANGED pv_modules
    /\ UNCHANGED besideModules

NextModules == \E entry \in ModuleEntries : ConstructPVModule(entry)

SpecModules == InitModules /\ [][NextModules]_vars

\* ------------------------------------ the attributes of a string, read

\* The largest cell_id of the strings whose attributes are read.
MaxCellId == 2

\* The cell lists whose attributes are read: cells of distinct ids, in any
\* order, the empty list among them.
IdLists ==
    {ids \in UNION {[1..n -> 0..MaxCellId] : n \in 0..(MaxCellId + 1)} :
        \A i, j \in 1..Len(ids) : i # j => ids[i] # ids[j]}

\* The bypass voltages of the diodes of those strings.
DiodeVoltages == {-2, 1}

\* No call of calculate_iv_curve running, none made.
IdleFrame ==
    /\ solve = <<>>
    /\ default_grid = <<>>
    /\ pc = "idle"
    /\ self_id = 1
    /\ args = NoCall
    /\ loop = 1
    /\ cell_to_iv_series = <<>>
    /\ returned = NoArrays
    /\ raised = NoError
    /\ unclamped = <<>>
    /\ history = <<>>
    /\ ncalls = 0

InitReads ==
    /\ strings \in
         {<<BypassedCellString(BypassDiode(v, MaxCellId, 0), CellsOf(ids)),
            BypassedCellString(BypassDiode(1, 1, 1), CellsOf(<<1>>))>> :
             v \in DiodeVoltages, ids \in IdLists}
    /\ IdleFrame
    /\ pv_modules = <<>>
    /\ parse_error = NoError
    /\ observed = NoRead
    /\ FactoryIdle
    /\ MainIdle

\* An attribute of a string is evaluated between two calls: the caller
\* gets the result, the string is what the attribute left of it.
Read(op, sid, result) ==
    /\ pc = "idle"
    /\ ncalls < MaxCalls
    /\ ncalls' = ncalls + 1
    /\ observed' = [op |-> op, sid |-> sid, result |-> result]
    /\ strings' = [strings EXCEPT ![sid] = SelfAfterRead(@)]
    /\ UNCHANGED <<solve, default_grid, pc, self_id, args, loop, cell_to_iv_series,
                   returned, raised, unclamped, history>>
    /\ UNCHANGED <<moduleVars, factoryVars, mainVars>>

GetBreakdownVoltage(sid) == Read("breakdown_voltage", sid, BreakdownVoltage(strings[sid]))

GetCellId(sid) == Read("cell_id", sid, CellId(strings[sid]))

GetHash(sid) == Read("__hash__", sid, Hash(strings[sid]))

NextReads ==
    \/ \E sid \in StringIds : GetBreakdownVoltage(sid)
    \/ \E sid \in StringIds : GetCellId(sid)
    \/ \E sid \in StringIds : GetHash(sid)

SpecReads == InitReads /\ [][NextReads]_vars

\* The methods and the attributes of the strings under test, in any order.
NextFrame == Next \/ NextReads

SpecFrame == Init /\ [][NextFrame]_vars

\* ------------------------------------------- the thin-film factory

\* The largest cell count the factory is called with.
MaxN == 4

\* The largest diode coverage the factory is called with.
MaxK == 3

\* Calls of the factory in one behaviour.
MaxBuilds == 2

\* The voltage of the diodes the factory places.
FactoryBypassVoltage == -2

\* pv_cells: ids 0..N-1 in physical order.
FactoryCells(n) == [i \in 1..n |-> PVCell(i - 1)]

\* The string of the run of cells from the one of id start_index to the
\* one of id end_index.
RunString(cells, start_index, end_index) ==
    BypassedCellString(BypassDiode(FactoryBypassVoltage, end_index, start_index),
                       SubSeq(cells, start_index + 1, end_index + 1))

RECURSIVE FullRunsFrom(_, _, _)
\* The strings of the runs of exactly k cells, the first one starting at
\* the cell of id start_index: cells left over at the end are in no string.
FullRunsFrom(cells, k, start_index) ==
    IF start_index + k > Len(cells) THEN <<>>
    ELSE <<RunString(cells, start_index, start_index + k - 1)>>
         \o FullRunsFrom(cells, k, start_index + k)

RECURSIVE RunsFrom(_, _, _)
\* One string per contiguous run of k cells, the first run starting at the
\* cell of id start_index; the last run is the cells that are left.
RunsFrom(cells, k, start_index) ==
    IF start_index >= Len(cells) THEN <<>>
    ELSE LET end_index == IF start_index + k <= Len(cells)
                          THEN start_index + k - 1 ELSE Len(cells) - 1
         IN  <<RunString(cells, start_index, end_index)>>
             \o RunsFrom(cells, k, start_index + k)

\* The strings of the full runs only.
FactoryStringsOfFullRuns(cells, k) == FullRunsFrom(cells, k, 0)

\* The strings of a module of the given cells, one diode per k cells.
FactoryStrings(cells, k) == RunsFrom(cells, k, 0)

\* The factory checks nothing: the module is built of what it is given.
FactoryRejectsNothing(n, k) == FALSE

\* The factory's check of its counts.
FactoryRejects(n, k) == k <= 0 \/ n <= 0

\* What the caller of the factory holds when the call failed.
NoModule == [pv_cells |-> <<>>, pv_cells_and_cell_strings |-> <<>>]

\* The module the factory builds of n cells, one diode per k cells; with
\* counts the factory let pass unchecked, a module of no cells.
ThinFilmModule(n, k) ==
    IF n <= 0 \/ k <= 0 THEN NoModule
    ELSE [pv_cells |-> FactoryCells(n),
          pv_cells_and_cell_strings |-> FactoryStrings(FactoryCells(n), k)]

InitFactory ==
    /\ strings = <<BypassedCellString(BypassDiode(-2, 1, 0), CellsOf(<<0, 1>>)),
                   BypassedCellString(BypassDiode(1, 1, 1), CellsOf(<<1>>))>>
    /\ IdleFrame
    /\ pv_modules = <<>>
    /\ parse_error = NoError
    /\ observed = NoRead
    /\ FactoryIdle
    /\ MainIdle

\* CurvedPVModule.thin_film_from_cell_number_and_dimensions with n cells
\* and diode coverage k: the caller gets the module, or ConfigurationError.
ThinFilmFromCellNumberAndDimensions(n, k) ==
    /\ Len(factory_attempts) < MaxBuilds
    /\ factory_attempts' =
         Append(factory_attempts,
                IF FactoryRejects(n, k)
                THEN [n |-> n, k |-> k, ok |-> FALSE, error |-> ConfigurationError,
                      module |-> NoModule]
                ELSE [n |-> n, k |-> k, ok |-> TRUE, error |-> NoError,
                      module |-> ThinFilmModule(n, k)])
    /\ UNCHANGED <<calculated, stringVars, moduleVars, readVars, mainVars>>

\* An irradiance or I-V calculation is run on a module the factory returned.
Calculate(b) ==
    /\ b \in 1..Len(factory_attempts)
    /\ factory_attempts[b].ok
    /\ b \notin calculated
    /\ calculated' = calculated \cup {b}
    /\ UNCHANGED <<factory_attempts, stringVars, moduleVars, readVars, mainVars>>

NextFactory ==
    \/ \E n \in -1..MaxN, k \in -1..MaxK : ThinFilmFromCellNumberAndDimensions(n, k)
    \/ \E b \in 1..MaxBuilds : Calculate(b)

SpecFactory == InitFactory /\ [][NextFactory]_vars

\* --------------------------------------------------------------- main

\* VOLTAGE_RESOLUTION of line 146.
VOLTAGE_RESOLUTION == 1000

\* The rows of a weather frame the model follows.
MaxRows == 2

\* The names of the locations of the locations file, in the file's order.
Locations == <<"kent", "delhi">>

LocationNumber(name) == CHOOSE k \in 1..Len(Locations) : Locations[k] = name

\* The frame _parse_solar reads for a location (line 400): a row per hour.
WeatherFrame(name) ==
    [i \in 1..MaxRows |->
        [local_time |-> i,
         irradiance_direct |-> i + LocationNumber(name),
         irradiance_diffuse |-> 2 * i,
         temperature |-> 20 + i]]

\* What _parse_solar can return: a frame for any of the locations.
WeatherData ==
    {[name \in names |-> WeatherFrame(name)] :
        names \in SUBSET {Locations[k] : k \in 1..Len(Locations)}}

\* location.get_solarposition (line 417), an external function of the
\* location, the time and the temperature: the term stands for its value.
SolarAnglesFromWeatherRow(row, name) ==
    [azimuth |-> <<"azimuth", name, row.local_time, row.temperature>>,
     apparent_zenith |-> <<"apparent_zenith", name, row.local_time, row.temperature>>]

\* pvlib.irradiance.dni (line 632), external: the term stands for its value.
Dni(ghi, dhi, zenith) == <<"dni", ghi, dhi, zenith>>

\* The weather frame after lines 627-636 added two columns to it.
WithGhiAndDni(name, weather_frame) ==
    [i \in 1..Len(weather_frame) |->
        LET row == weather_frame[i]
            ghi == row.irradiance_direct + row.irradiance_diffuse
        IN  [local_time |-> row.local_time,
             irradiance_direct |-> row.irradiance_direct,
             irradiance_diffuse |-> row.irradiance_diffuse,
             temperature |-> row.temperature,
             irradiance_global_horizontal |-> ghi,
             irradiance_direct_normal |->
                 Dni(ghi, row.irradiance_diffuse,
                     SolarAnglesFromWeatherRow(row, name).apparent_zenith)]]

\* The combined frame of lines 639-641: the solar frame beside the weather
\* frame, row by row.
CombinedFrame(name, weather_frame) ==
    [i \in 1..Len(weather_frame) |->
        LET row == WithGhiAndDni(name, weather_frame)[i]
            solar == SolarAnglesFromWeatherRow(weather_frame[i], name)
        IN  [local_time |-> row.local_time,
             irradiance_direct |-> row.irradiance_direct,
             irradiance_diffuse |-> row.irradiance_diffuse,
             temperature |-> row.temperature,
             irradiance_global_horizontal |-> row.irradiance_global_horizontal,
             irradiance_direct_normal |-> row.irradiance_direct_normal,
             azimuth |-> solar.azimuth,
             apparent_zenith |-> solar.apparent_zenith]]

\* A cache file an earlier run left for a location, of other weather.
CachedFrame(name) ==
    [i \in 1..MaxRows |->
        [local_time |-> i,
         irradiance_direct |-> 7,
         irradiance_diffuse |-> 7,
         temperature |-> 7,
         irradiance_global_horizontal |-> 7,
         irradiance_direct_normal |-> <<"dni", "cached", name, i>>,
         azimuth |-> <<"azimuth", "cached", name, i>>,
         apparent_zenith |-> <<"apparent_zenith", "cached", name, i>>]]

NoFile == [exists |-> FALSE, frame |-> <<>>]

File(frame) == [exists |-> TRUE, frame |-> frame]

\* The cache is used whether or not --regenerate is set.
UseCacheIfPresent(isfile, regenerate) == isfile

\* The condition of lines 598-607.
UseCache(isfile, regenerate) == isfile /\ ~regenerate

\* locations_with_weather of lines 587-591, in the order of locations.
LocationsWithWeather ==
    SelectSeq(Locations, LAMBDA name : name \in DOMAIN weather_data)

\* The events of computing the solar frame of lines 615-624: one call of
\* _solar_angles_from_weather_row per row.
SolarEvents(name, weather_frame) ==
    [i \in 1..Len(weather_frame) |-> [op |-> "solar", location |-> name, row |-> i]]

\* The tilt of cell number cell_id of a module of n cells on its curve, in
\* degrees: 10 degrees more from each cell to the next, about the axis.
TiltOf(cell_id, n) == 10 * (2 * cell_id - (n - 1))

\* A cell of a module of n cells as main uses it.
ModuleCell(cell_id, breakdown_voltage, short_circuit_current, n) ==
    [cell_id |-> cell_id, breakdown_voltage |-> breakdown_voltage,
     short_circuit_current |-> short_circuit_current, tilt |-> TiltOf(cell_id, n)]

\* The modules of the scenarios: one with a string and a bare cell, one
\* with two strings, a diode of which is below its cells' breakdown.
SmallModule ==
    LET cells == <<ModuleCell(0, -15, 3, 2), ModuleCell(1, -16, 4, 2)>>
    IN  [pv_cells |-> cells,
         pv_cells_and_cell_strings |->
             <<BypassedCellString(BypassDiode(-2, 0, 0), SubSeq(cells, 1, 1)),
               cells[2]>>]

LargeModule ==
    LET cells == <<ModuleCell(0, -15, 5, 3), ModuleCell(1, -15, 2, 3),
                    ModuleCell(2, -15, 4, 3)>>
    IN  [pv_cells |-> cells,
         pv_cells_and_cell_strings |->
             <<BypassedCellString(BypassDiode(-20, 1, 0), SubSeq(cells, 1, 2)),
               BypassedCellString(BypassDiode(-1, 2, 2), SubSeq(cells, 3, 3))>>]

\* The scenarios of the scenarios file; two of them share a name.
Scenarios ==
    <<[name |-> "small", location |-> "kent", pv_module |-> SmallModule],
      [name |-> "large", location |-> "delhi", pv_module |-> LargeModule],
      [name |-> "small", location |-> "delhi", pv_module |-> SmallModule]>>

\* What --scenario can be given as.
ScenarioArguments ==
    {NoScenario} \cup {[given |-> TRUE, name |-> n] : n \in {"small", "large", "huge"}}

\* The keys of the dict of line 701.
ScenarioNames == {Scenarios[k].name : k \in 1..Len(Scenarios)}

\* The value the dict of line 701 holds for a name: of the scenarios of
\* that name, the last of the file.
ScenarioByName(name) ==
    CHOOSE k \in 1..Len(Scenarios) :
        /\ Scenarios[k].name = name
        /\ \A j \in (k + 1)..Len(Scenarios) : Scenarios[j].name # name

\* Whatever is missing, KeyError.
SelectionErrorKeyOnly(arguments) == KeyError

\* The handler of lines 704-711.
SelectionError(arguments) ==
    IF ~arguments.scenario.given THEN ArgumentError ELSE KeyError

\* breakdown_voltage of an element of pv_cells_and_cell_strings: the
\* string's property, or the cell's own.
UnitBreakdownVoltage(unit) ==
    IF "bypass_diode" \in DOMAIN unit
    THEN BreakdownVoltage(unit).value
    ELSE unit.breakdown_voltage

\* The sweep is sized on the cells alone.
SweepUnitsCellsOnly(pv_module) == pv_module.pv_cells

\* What the list comprehension of lines 730-733 runs over.
SweepUnits(pv_module) == pv_module.pv_cells_and_cell_strings

RECURSIVE MaxOfFirst(_, _)
MaxOfFirst(list, k) ==
    IF k = 1 THEN list[1]
    ELSE LET m == MaxOfFirst(list, k - 1)
         IN  IF list[k] > m THEN list[k] ELSE m

\* np.max and np.min of a list of at least one number.
NumpyMax(list) == MaxOfFirst(list, Len(list))

NumpyMin(list) == MinOfFirst(list, Len(list))

\* np.linspace(start, stop, num) on the integers: num samples from start
\* to stop, both ends exact.
Linspace(start, stop, num) ==
    [i \in 1..num |-> start + ((i - 1) * (stop - start)) \div (num - 1)]

\* The row of a frame that stands for time_of_day of line 745: the last of
\* the rows the model follows.
TimeOfDayRow == MaxRows

\* get_irradiance (line 659), external, a function of the cell and of the
\* weather and solar entry: the term stands for its value.
GetIrradiance(pv_cell, entry) ==
    <<"irradiance", pv_cell.cell_id, pv_cell.tilt, entry.local_time,
      entry.irradiance_diffuse, entry.irradiance_global_horizontal,
      entry.irradiance_direct_normal>>

\* The dict of lines 658-668 for one cell, a value per entry.
HourlyIrradiances(pv_cell, entries) ==
    [i \in 1..Len(entries) |-> GetIrradiance(pv_cell, entries[i])]

\* hourly_frames of lines 678-682: one column per cell, named by the
\* cell's place in pv_cells, counted from 0.
HourlyFrames(pv_module, entries) ==
    [j \in 1..Len(pv_module.pv_cells) |->
        [column |-> j - 1, values |-> HourlyIrradiances(pv_module.pv_cells[j], entries)]]

\* sort_index(axis=1, ascending=False) of line 685: the column with p - 1
\* columns of a greater name comes p-th.
SortColumnsDescending(columns) ==
    [p \in 1..Len(columns) |->
        columns[CHOOSE c \in 1..Len(columns) :
                    Cardinality({g \in 1..Len(columns) :
                                    columns[g].column > columns[c].column}) = p - 1]]

\* The header of line 693 for a cell of a module of n cells.
ColumnLabel(pv_cell, n) == [minus |-> 2 * pv_cell.cell_id < n, tilt |-> pv_cell.tilt]

\* Lines 692-695: the columns, in the order they stand in, get the headers
\* of the cells in the order of pv_cells.
Relabelled(columns, pv_cells) ==
    [p \in 1..Len(columns) |->
        [label |-> ColumnLabel(pv_cells[p], Len(pv_cells)), values |-> columns[p].values]]

\* combined_frame of lines 684-695, the cells' columns and the hour column.
CombinedIrradianceFrame(pv_module, entries) ==
    [columns |-> Relabelled(SortColumnsDescending(HourlyFrames(pv_module, entries)),
                            pv_module.pv_cells),
     hour |-> [i \in 1..Len(entries) |-> entries[i].local_time]]

\* 1000 times a value that get_irradiance returned.
Times1000(value) == <<1000, value>>

\* irradiance_frame.set_index("hour").iloc[time_of_day].values[cell_id]
\* of lines 759-761 and 784-786.
FrameValue(irradiance_frame, cell_id) ==
    irradiance_frame.columns[cell_id + 1].values[TimeOfDayRow]

\* The current array calculate_cell_iv_curve returns with the last sample
\* dropped when the cell is in reverse bias.
ReturnedCurrentSeriesTrimmed(grid, out) ==
    IF out.v < 0 THEN SubSeq(grid, 1, Len(grid) - 1) ELSE grid

\* The current array calculate_cell_iv_curve returns: the sweep it was
\* given.
ReturnedCurrentSeries(grid, out) == grid

\* main after lines 566-584: the command line and the input files are
\* parsed, the weather data is read, auto_generated/ holds what earlier
\* runs left.
InitMain ==
    /\ strings = <<BypassedCellString(BypassDiode(-2, 1, 0), CellsOf(<<0, 1>>)),
                   BypassedCellString(BypassDiode(1, 1, 1), CellsOf(<<1>>))>>
    /\ IdleFrame
    /\ pv_modules = <<>>
    /\ parse_error = NoError
    /\ observed = NoRead
    /\ FactoryIdle
    /\ main_pc = "solar"
    /\ parsed_args \in [scenario : ScenarioArguments, regenerate : BOOLEAN]
    /\ weather_data \in WeatherData
    /\ files \in {[k \in 1..Len(Locations) |->
                     IF Locations[k] \in present THEN File(CachedFrame(Locations[k]))
                     ELSE NoFile] :
                  present \in SUBSET {Locations[k] : k \in 1..Len(Locations)}}
    /\ files_at_start = files
    /\ solar_loop = 1
    /\ locations_with_weather_and_solar = <<>>
    /\ io_log = <<>>
    /\ cellwise_irradiance_frames = <<>>
    /\ scenario = NotSelected
    /\ current_series = <<>>
    /\ voltage_series = <<>>
    /\ cell_loop = 1
    /\ iv_curves = 0
    /\ plots = 0
    /\ main_error = NoError
    /\ cell_calls = <<>>
    /\ bars = <<>>

\* One iteration of the loop of lines 596-643, on the next location that
\* has weather data: the cached file is read, or the solar positions, the
\* GHI and the DNI are computed and the combined frame is written.
SolarStep ==
    /\ main_pc = "solar"
    /\ solar_loop <= Len(LocationsWithWeather)
    /\ LET name == LocationsWithWeather[solar_loop]
           file == files[LocationNumber(name)]
           frame == CombinedFrame(name, weather_data[name])
       IN  IF UseCache(file.exists, parsed_args.regenerate)
           THEN /\ locations_with_weather_and_solar' =
                      DictSet(locations_with_weather_and_solar, name, file.frame)
                /\ io_log' = Append(io_log, [op |-> "read", location |-> name, row |-> 0])
                /\ UNCHANGED <<files, weather_data>>
           ELSE /\ locations_with_weather_and_solar' =
                      DictSet(locations_with_weather_and_solar, name, frame)
                /\ weather_data' =
                      [weather_data EXCEPT ![name] = WithGhiAndDni(name, @)]
                /\ files' = [files EXCEPT ![LocationNumber(name)] = File(frame)]
                /\ io_log' = io_log \o SolarEvents(name, weather_data[name])
                                    \o <<[op |-> "write", location |-> name, row |-> 0]>>
    /\ solar_loop' = solar_loop + 1
    /\ UNCHANGED <<main_pc, parsed_args, files_at_start, cellwise_irradiance_frames,
                   scenario, current_series, voltage_series, cell_loop, iv_curves,
                   plots, main_error>>
    /\ UNCHANGED <<loopLog, besideMain>>

\* Lines 646-697, after the loop: the irradiance on every cell of every
\* scenario, and a frame of it per scenario.  The lookup of line 667 raises
\* KeyError for a scenario whose location has no frame.
ComputeIrradiance ==
    /\ main_pc = "solar"
    /\ solar_loop > Len(LocationsWithWeather)
    /\ IF \E k \in 1..Len(Scenarios) :
             Scenarios[k].location \notin DOMAIN locations_with_weather_and_solar
       THEN /\ main_pc' = "failed"
            /\ main_error' = KeyError
            /\ UNCHANGED cellwise_irradiance_frames
       ELSE /\ main_pc' = "select"
            /\ cellwise_irradiance_frames' =
                  [k \in 1..Len(Scenarios) |->
                      [scenario |-> k, cells |-> Len(Scenarios[k].pv_module.pv_cells),
                       frame |->
                           CombinedIrradianceFrame(
                               Scenarios[k].pv_module,
                               locations_with_weather_and_solar[Scenarios[k].location])]]
            /\ UNCHANGED main_error
    /\ UNCHANGED <<parsed_args, weather_data, files, files_at_start, solar_loop,
                   locations_with_weather_and_solar, io_log, scenario, current_series,
                   voltage_series, cell_loop, iv_curves, plots>>
    /\ UNCHANGED <<loopLog, besideMain>>

\* Lines 699-718: the scenario of the name given, or the exception of the
\* handler.
SelectScenario ==
    /\ main_pc = "select"
    /\ IF parsed_args.scenario.given /\ parsed_args.scenario.name \in ScenarioNames
       THEN LET k == ScenarioByName(parsed_args.scenario.name)
            IN  IF \E f \in 1..Len(cellwise_irradiance_frames) :
                      Scenarios[cellwise_irradiance_frames[f].scenario] = Scenarios[k]
                THEN /\ scenario' = [given |-> TRUE, index |-> k]
                     /\ main_pc' = "sweep"
                     /\ UNCHANGED main_error
                ELSE /\ main_pc' = "failed"
                     /\ main_error' = Exception
                     /\ UNCHANGED scenario
       ELSE /\ main_pc' = "failed"
            /\ main_error' = SelectionError(parsed_args)
            /\ UNCHANGED scenario
    /\ UNCHANGED <<parsed_args, weather_data, files, files_at_start, solar_loop,
                   locations_with_weather_and_solar, io_log, cellwise_irradiance_frames,
                   current_series, voltage_series, cell_loop, iv_curves, plots>>
    /\ UNCHANGED <<loopLog, besideMain>>

\* The module of the selected scenario.
SelectedModule == Scenarios[scenario.index].pv_module

\* Lines 720-737: the current sweep and the voltage sweep.
SizeSweeps ==
    /\ main_pc = "sweep"
    /\ current_series' =
         Linspace(0,
                  2 * NumpyMax([i \in 1..Len(SelectedModule.pv_cells) |->
                                   SelectedModule.pv_cells[i].short_circuit_current]),
                  VOLTAGE_RESOLUTION)
    /\ voltage_series' =
         Linspace(NumpyMin([i \in 1..Len(SweepUnits(SelectedModule)) |->
                               UnitBreakdownVoltage(SweepUnits(SelectedModule)[i])]),
                  100,
                  VOLTAGE_RESOLUTION)
    /\ cell_loop' = 1
    /\ main_pc' = "cells"
    /\ UNCHANGED <<parsed_args, weather_data, files, files_at_start, solar_loop,
                   locations_with_weather_and_solar, io_log, cellwise_irradiance_frames,
                   scenario, iv_curves, plots, main_error>>
    /\ UNCHANGED <<loopLog, besideMain>>

\* irradiance_frame of lines 713-718: the frame of the first entry whose
\* scenario is the selected one.
IrradianceFrame ==
    cellwise_irradiance_frames[
        CHOOSE f \in 1..Len(cellwise_irradiance_frames) :
            /\ Scenarios[cellwise_irradiance_frames[f].scenario] = Scenarios[scenario.index]
            /\ \A g \in 1..(f - 1) :
                  Scenarios[cellwise_irradiance_frames[g].scenario]
                      # Scenarios[scenario.index]].frame

\* One iteration of the loop of lines 747-774: the cell's curve at the
\* temperature and irradiance of time_of_day, on the current sweep,
\* plotted; the three locals are bound to what the cell returned.  The cell
\* answers one voltage at every sample, or fails.
CellCurve ==
    /\ main_pc = "cells"
    /\ cell_loop <= Len(SelectedModule.pv_cells)
    /\ LET pv_cell == SelectedModule.pv_cells[cell_loop]
           entries == locations_with_weather_and_solar[Scenarios[scenario.index].location]
       IN  cell_calls' =
               Append(cell_calls,
                      [cell_id |-> pv_cell.cell_id,
                       ambient_celsius_temperature |-> entries[TimeOfDayRow].temperature,
                       solar_irradiance |->
                           Times1000(FrameValue(IrradianceFrame, pv_cell.cell_id)),
                       current_series |-> current_series])
    /\ \E out \in SolveOutcomes :
          IF out.ok
          THEN /\ current_series' = ReturnedCurrentSeries(current_series, out)
               /\ voltage_series' = [i \in 1..Len(current_series') |-> out.v]
               /\ iv_curves' = iv_curves + 1
               /\ plots' = plots + 1
               /\ cell_loop' = cell_loop + 1
               /\ UNCHANGED <<main_pc, main_error>>
          ELSE /\ main_pc' = "failed"
               /\ main_error' =
                     ModelConvergenceError(SelectedModule.pv_cells[cell_loop].cell_id, 1)
               /\ UNCHANGED <<current_series, voltage_series, iv_curves, plots, cell_loop>>
    /\ UNCHANGED <<parsed_args, weather_data, files, files_at_start, solar_loop,
                   locations_with_weather_and_solar, io_log, cellwise_irradiance_frames,
                   scenario, bars>>
    /\ UNCHANGED besideMain

\* Lines 776-789 and the figures after them: the curves are shown, and a
\* bar per cell of the irradiance at time_of_day.
ShowPlots ==
    /\ main_pc = "cells"
    /\ cell_loop > Len(SelectedModule.pv_cells)
    /\ bars' = [j \in 1..Len(SelectedModule.pv_cells) |->
                   [cell_id |-> SelectedModule.pv_cells[j].cell_id,
                    height |-> Times1000(FrameValue(IrradianceFrame,
                                                    SelectedModule.pv_cells[j].cell_id))]]
    /\ plots' = plots + 1
    /\ main_pc' = "done"
    /\ UNCHANGED <<parsed_args, weather_data, files, files_at_start, solar_loop,
                   locations_with_weather_and_solar, io_log, cellwise_irradiance_frames,
                   scenario, current_series, voltage_series, cell_loop, iv_curves,
                   main_error, cell_calls>>
    /\ UNCHANGED besideMain

NextMain ==
    \/ SolarStep
    \/ ComputeIrradiance
    \/ SelectScenario
    \/ SizeSweeps
    \/ CellCurve
    \/ ShowPlots

SpecMain == InitMain /\ [][NextMain]_vars

\* ---------------------------------------------------------------- C9
\* The diodes of module m whose range [start_index, end_index] holds cell c.
DiodesCovering(m, c) ==
    {k \in 1..Len(m.bypass_diodes) :
        /\ m.bypass_diodes[k].start_index <= c.cell_id
        /\ c.cell_id <= m.bypass_diodes[k].end_index}

\* C9: in every module _parse_pv_modules has constructed, every cell of the
\* module lies in the range of exactly one of the module's bypass diodes.
C9_PartitionInvariant ==
    \A n \in 1..Len(pv_modules) :
        \A i \in 1..Len(pv_modules[n].pv_cells) :
            Cardinality(DiodesCovering(pv_modules[n], pv_modules[n].pv_cells[i])) = 1

\* ---------------------------------------------------------------- C10
\* C10: every bypass diode of every module _parse_pv_modules has constructed
\* has start_index <= end_index and bypass_voltage <= 0.
C10_DiodeBounds ==
    \A n \in 1..Len(pv_modules) :
        \A k \in 1..Len(pv_modules[n].bypass_diodes) :
            /\ pv_modules[n].bypass_diodes[k].start_index
                  <= pv_modules[n].bypass_diodes[k].end_index
            /\ pv_modules[n].bypass_diodes[k].bypass_voltage <= 0

\* ------------------------------------------------ the running call

Self == strings[self_id]

BypassVoltage == Self.bypass_diode.bypass_voltage

\* The grid cell number j of the running string was evaluated on: the one
\* passed in, or the cell's own.
OwnGrid(j) ==
    IF args.current_series.given
    THEN args.current_series.series
    ELSE default_grid[GridKey(Self.pv_cells[j], args)]

\* What the solver answered for cell number j at sample i of its grid.
OwnSolve(j, i) == solve[SolveKey(Self.pv_cells[j], args, OwnGrid(j)[i])]

RECURSIVE OwnVoltageSum(_, _)
\* S[i]: the sum, over the first k cells of the list, of the voltage the
\* solver answered for that cell at sample i.
OwnVoltageSum(k, i) ==
    IF k = 0 THEN 0 ELSE OwnVoltageSum(k - 1, i) + OwnSolve(k, i).v

Max(a, b) == IF a >= b THEN a ELSE b

Samples == 1..Len(returned.voltage)

\* ---------------------------------------------------------------- C1
\* C1: whenever calculate_iv_curve returns, every sample of the voltage
\* array it returns is at least the diode's bypass_voltage.
C1_ClampInvariant ==
    pc = "returned" =>
        \A i \in Samples : returned.voltage[i] >= BypassVoltage

\* A call returned in which the sum of the cell voltages lay below the
\* diode's voltage at some sample, and was clamped there.
C1_Witness ==
    /\ pc = "returned"
    /\ \E i \in Samples :
          unclamped[i] < BypassVoltage /\ returned.voltage[i] = BypassVoltage

\* ---------------------------------------------------------------- C2
\* C2: whenever calculate_iv_curve returns, power[i] is current[i] times the
\* returned (clamped) voltage[i] at every sample, and so differs from
\* current[i] times the unclamped sum wherever the clamp changed the voltage
\* and current flows.
C2_PostClampPower ==
    pc = "returned" =>
        /\ Len(returned.power) = Len(returned.voltage)
        /\ \A i \in Samples :
              /\ returned.power[i] = returned.current[i] * returned.voltage[i]
              /\ (unclamped[i] < BypassVoltage /\ returned.current[i] # 0)
                    => returned.power[i] # returned.current[i] * unclamped[i]

\* A call returned with a sample that carries current and was clamped.
C2_Witness ==
    /\ pc = "returned"
    /\ \E i \in Samples :
          /\ unclamped[i] < BypassVoltage
          /\ returned.current[i] # 0
          /\ returned.power[i] = returned.current[i] * BypassVoltage

\* ---------------------------------------------------------------- C3
\* C3: whenever calculate_iv_curve returns, voltage[i] = max(S[i],
\* bypass_voltage) at every sample, S[i] being the sum over all cells of the
\* list of the voltage the cell's solve gave at index i: S[i] where S[i] >=
\* bypass_voltage, exactly bypass_voltage where S[i] < bypass_voltage.
C3_ExactClamp ==
    pc = "returned" =>
        \A i \in Samples :
            LET S == OwnVoltageSum(Len(Self.pv_cells), i)
            IN  /\ returned.voltage[i] = Max(S, BypassVoltage)
                /\ S >= BypassVoltage => returned.voltage[i] = S
                /\ S < BypassVoltage => returned.voltage[i] = BypassVoltage

\* A two-cell string behind the -2 V diode returned a curve clamped to -2 V
\* at one sample and left at the sum of the two cells at another.
C3_Witness ==
    /\ pc = "returned"
    /\ Len(Self.pv_cells) = 2
    /\ BypassVoltage = -2
    /\ \E i, k \in Samples :
          /\ OwnVoltageSum(2, i) < -2 /\ returned.voltage[i] = -2
          /\ OwnVoltageSum(2, k) > -2 /\ returned.voltage[k] = OwnVoltageSum(2, k)

\* ---------------------------------------------------------------- C4
\* C4: whenever calculate_iv_curve returns, the current array it returns is
\* the current array of every member cell, whatever the arguments were.
C4_SameGridEveryCell ==
    pc = "returned" =>
        \A j \in 1..Len(Self.pv_cells) :
            cell_to_iv_series[Self.pv_cells[j]].current = returned.current

\* A two-cell string was called with no current grid, and its two cells
\* derived different grids.
C4_Reached ==
    /\ pc = "returned"
    /\ Len(Self.pv_cells) = 2
    /\ ~args.current_series.given
    /\ OwnGrid(1) # OwnGrid(2)

\* ---------------------------------------------------------------- C5
\* C5: whenever calculate_iv_curve returns, the three arrays are as long as
\* the grid of the first cell and as the sum before the clamp; the current is
\* that grid, sample for sample in its order (the caller's grid when one was
\* given); and sample i of the voltage is sample i of the sum or the clamp
\* in its place, sample i of the power the product at i.
C5_IndexAlignment ==
    pc = "returned" =>
        /\ Len(returned.current) = Len(OwnGrid(1))
        /\ Len(returned.power) = Len(OwnGrid(1))
        /\ Len(returned.voltage) = Len(OwnGrid(1))
        /\ Len(unclamped) = Len(OwnGrid(1))
        /\ returned.current = OwnGrid(1)
        /\ args.current_series.given =>
              returned.current = args.current_series.series
        /\ \A i \in 1..Len(OwnGrid(1)) :
              /\ returned.voltage[i] = Max(unclamped[i], BypassVoltage)
              /\ returned.power[i] = OwnGrid(1)[i] * returned.voltage[i]

\* A call on the caller's grid <<2, 0, 1>> returned a curve of three samples
\* whose first was clamped and whose second was not.
C5_Witness ==
    /\ pc = "returned"
    /\ args.current_series.given
    /\ returned.current = <<2, 0, 1>>
    /\ Len(returned.voltage) = 3
    /\ unclamped[1] < BypassVoltage
    /\ unclamped[2] > BypassVoltage
    /\ returned.voltage[1] # returned.voltage[2]

\* ---------------------------------------------------------------- C6
\* Cell number j of the running string has been evaluated and its solve
\* failed at some sample.
CellFailed(j) ==
    \E i \in 1..Len(OwnGrid(j)) : ~OwnSolve(j, i).ok

\* C6: a call in which the solve of a member cell failed ends with the
\* convergence error of that cell and no arrays; a call that returns has
\* evaluated every cell, none failed, and the voltage of every cell in the
\* dict is the voltage its solve gave.
C6_NoSilentSubstitution ==
    /\ (pc \in {"cells", "returned"}) =>
          \A j \in 1..(loop - 1) :
              /\ ~CellFailed(j)
              /\ \A i \in 1..Len(OwnGrid(j)) :
                    cell_to_iv_series[Self.pv_cells[j]].voltage[i]
                        = OwnSolve(j, i).v
    /\ pc = "returned" => loop = Len(Self.pv_cells) + 1
    /\ (pc = "raised" /\ Len(Self.pv_cells) > 0) =>
          /\ CellFailed(loop)
          /\ raised.type = "ModelConvergenceError"
          /\ returned = NoArrays

\* The second cell of a string failed after the first had been solved: the
\* call raised and returned nothing.
C6_Witness ==
    /\ pc = "raised"
    /\ loop = 2
    /\ CellFailed(2)
    /\ ~CellFailed(1)
    /\ returned = NoArrays

\* ---------------------------------------------------------------- C7
\* C7: the convergence error that leaves calculate_iv_curve names the cell
\* whose solve failed (a member of the string) and the first sample of that
\* cell's grid at which it failed.
C7_FaultLocalisation ==
    (pc = "raised" /\ raised.type = "ModelConvergenceError") =>
        /\ raised.cell_id = Self.pv_cells[loop].cell_id
        /\ raised.sample \in 1..Len(OwnGrid(loop))
        /\ ~OwnSolve(loop, raised.sample).ok
        /\ \A i \in 1..(raised.sample - 1) : OwnSolve(loop, i).ok

\* The second cell of a string failed at the second sample of its grid.
C7_Witness ==
    /\ pc = "raised"
    /\ loop = 2
    /\ raised = ModelConvergenceError(Self.pv_cells[2].cell_id, 2)

ReadString == strings[observed.sid]

ReadIds == CellIds(ReadString)

\* ---------------------------------------------------------------- C11
\* C11: no string has an empty cell list, so calculate_iv_curve never runs
\* on an empty list and never raises for it, and cell_id and __hash__ are
\* never evaluated on an empty list and never raise for it.
C11_EmptyListRejected ==
    /\ pc # "idle" => Len(Self.pv_cells) > 0
    /\ pc = "raised" => raised # TypeError
    /\ observed.op \in {"cell_id", "__hash__"} =>
          /\ Len(ReadString.pv_cells) > 0
          /\ observed.result.ok

\* ---------------------------------------------------------------- C12
\* C12: no step of calculate_iv_curve and no evaluation of
\* breakdown_voltage, cell_id or __hash__ changes a string (its diode, its
\* cell list, a cell of it), and from the call of calculate_iv_curve to its
\* end the arguments are the ones the caller passed.
C12_Immutability ==
    [][/\ strings' = strings
       /\ (pc # "idle" /\ pc' # "idle") => args' = args]_vars

\* An attribute was read of the two-cell string in descending order, then
\* calculate_iv_curve returned on it.
C12_Witness ==
    /\ observed.op = "cell_id"
    /\ observed.sid = 1
    /\ pc = "returned"
    /\ self_id = 1
    /\ CellIds(Self) = <<1, 0>>
    /\ args.current_series.given

CeilDiv(n, k) == (n + k - 1) \div k

\* C14: every module the thin-film factory built of N > 0 cells with diode
\* coverage K > 0 has the cells of ids 0..N-1 in that order and ceil(N/K)
\* strings; string number j holds, in order, the cells of ids (j-1)K up to
\* jK-1, or up to N-1 if that is less, and each cell is in exactly one
\* string.
C14_FactoryPartition ==
    \A b \in 1..Len(factory_attempts) :
        LET a == factory_attempts[b]
            cells == a.module.pv_cells
            units == a.module.pv_cells_and_cell_strings
        IN  (a.ok /\ a.n > 0 /\ a.k > 0) =>
                /\ Len(cells) = a.n
                /\ \A i \in 1..a.n : cells[i].cell_id = i - 1
                /\ Len(units) = CeilDiv(a.n, a.k)
                /\ \A j \in 1..Len(units) :
                      LET first == (j - 1) * a.k
                          last == IF j * a.k <= a.n THEN j * a.k - 1 ELSE a.n - 1
                      IN  CellIds(units[j]) = [i \in 1..(last - first + 1) |-> first + i - 1]
                /\ \A i \in 1..a.n :
                      Cardinality({j \in 1..Len(units) :
                          \E c \in 1..Len(units[j].pv_cells) :
                              units[j].pv_cells[c] = cells[i]}) = 1

\* The factory built a module of 4 cells with one diode per 3 cells: two
\* strings, the last of one cell.
C14_Witness ==
    \E b \in 1..Len(factory_attempts) :
        /\ factory_attempts[b].ok
        /\ factory_attempts[b].n = 4
        /\ factory_attempts[b].k = 3
        /\ Len(factory_attempts[b].module.pv_cells_and_cell_strings) = 2
        /\ CellIds(factory_attempts[b].module.pv_cells_and_cell_strings[2]) = <<3>>

\* ---------------------------------------------------------------- C15
\* C15: every call of the factory with N <= 0 or K <= 0 failed with
\* ConfigurationError and gave the caller no module, and no calculation was
\* run on a module of such counts.
C15_EagerConfigurationError ==
    \A b \in 1..Len(factory_attempts) :
        (factory_attempts[b].n <= 0 \/ factory_attempts[b].k <= 0) =>
            /\ ~factory_attempts[b].ok
            /\ factory_attempts[b].error = ConfigurationError
            /\ factory_attempts[b].module = NoModule
            /\ b \notin calculated

\* The factory refused a diode coverage of 0, then built a module that a
\* calculation was run on.
C15_Witness ==
    /\ Len(factory_attempts) = 2
    /\ factory_attempts[1].k = 0
    /\ factory_attempts[1].n > 0
    /\ factory_attempts[1].error = ConfigurationError
    /\ factory_attempts[2].ok
    /\ calculated = {2}

\* ---------------------------------------------------------------- C17
\* The units of the selected scenario's module and what each breaks down
\* or clamps at.
Units == SelectedModule.pv_cells_and_cell_strings

BreaksDownAt(unit) ==
    IF "bypass_diode" \in DOMAIN unit
    THEN unit.bypass_diode.bypass_voltage
    ELSE unit.breakdown_voltage

\* C17: when main has sized its sweeps, the voltage sweep has
\* VOLTAGE_RESOLUTION samples, its first sample is the breakdown voltage of
\* a unit of the selected scenario's module, and no unit of the module has
\* a breakdown voltage below it.
C17_SweepLowerEnd ==
    (main_pc = "cells" /\ cell_loop = 1) =>
        /\ Len(voltage_series) = VOLTAGE_RESOLUTION
        /\ \E u \in 1..Len(Units) : BreaksDownAt(Units[u]) = voltage_series[1]
        /\ \A u \in 1..Len(Units) : BreaksDownAt(Units[u]) >= voltage_series[1]

\* The sweeps are sized for the module whose most negative breakdown
\* voltage is a diode's, -20 V, below the -15 V of its cells.
C17_Witness ==
    /\ main_pc = "cells"
    /\ cell_loop = 1
    /\ Scenarios[scenario.index].name = "large"
    /\ voltage_series[1] = -20
    /\ voltage_series[VOLTAGE_RESOLUTION] = 100

\* ---------------------------------------------------------------- C19
\* main is past the selection of lines 699-711.
PastSelection ==
    \/ main_pc \in {"sweep", "cells", "done"}
    \/ main_pc = "failed" /\ cellwise_irradiance_frames # <<>>

MainEnded == main_pc \in {"done", "failed"}

NameMatchesNoScenario ==
    parsed_args.scenario.given /\ parsed_args.scenario.name \notin ScenarioNames

NothingComputedOrPlotted == iv_curves = 0 /\ plots = 0

Events(op, name) ==
    {e \in 1..Len(io_log) : io_log[e].op = op /\ io_log[e].location = name}

\* C20: for every location with weather data the loop has dealt with: if
\* its cache file existed when main started and --regenerate is not set,
\* the file was read once and is what it was, no solar position was
\* computed, and the location's frame is the file's; otherwise one solar
\* position per row was computed, the frame has GHI = direct + diffuse and
\* the DNI of that GHI, the diffuse irradiance and the zenith in every row,
\* and the file was written once and holds the frame; either way the
\* location has its one frame, and no other location has one.
C20_SolarCache ==
    /\ \A k \in 1..Len(LocationsWithWeather) :
          k < solar_loop =>
              LET name == LocationsWithWeather[k]
                  n == LocationNumber(name)
                  frame == locations_with_weather_and_solar[name]
              IN  /\ name \in DOMAIN locations_with_weather_and_solar
                  /\ IF files_at_start[n].exists /\ ~parsed_args.regenerate
                     THEN /\ Cardinality(Events("read", name)) = 1
                          /\ Events("write", name) = {}
                          /\ Events("solar", name) = {}
                          /\ files[n] = files_at_start[n]
                          /\ frame = files_at_start[n].frame
                     ELSE /\ Events("read", name) = {}
                          /\ Cardinality(Events("write", name)) = 1
                          /\ Cardinality(Events("solar", name)) = MaxRows
                          /\ files[n] = File(frame)
                          /\ Len(frame) = MaxRows
                          /\ \A i \in 1..MaxRows :
                                /\ frame[i].irradiance_direct =
                                      WeatherFrame(name)[i].irradiance_direct
                                /\ frame[i].irradiance_diffuse =
                                      WeatherFrame(name)[i].irradiance_diffuse
                                /\ frame[i].irradiance_global_horizontal =
                                      frame[i].irradiance_direct + frame[i].irradiance_diffuse
                                /\ frame[i].apparent_zenith =
                                      SolarAnglesFromWeatherRow(WeatherFrame(name)[i],
                                                                name).apparent_zenith
                                /\ frame[i].irradiance_direct_normal =
                                      Dni(frame[i].irradiance_global_horizontal,
                                          frame[i].irradiance_diffuse,
                                          frame[i].apparent_zenith)
    /\ \A name \in DOMAIN locations_with_weather_and_solar :
          \E k \in 1..Len(LocationsWithWeather) :
              k < solar_loop /\ LocationsWithWeather[k] = name
    /\ \A e \in 1..Len(io_log) : io_log[e].location \in DOMAIN locations_with_weather_and_solar

\* With --regenerate not set, the loop read the cache file of kent and
\* computed and wrote the frame of delhi, which had none.
C20_Witness ==
    /\ main_pc = "select"
    /\ ~parsed_args.regenerate
    /\ files_at_start[LocationNumber("kent")].exists
    /\ ~files_at_start[LocationNumber("delhi")].exists
    /\ Events("read", "kent") # {}
    /\ Events("write", "delhi") # {}
    /\ files[LocationNumber("delhi")].exists

\* ---------------------------------------------------------------- C21
\* The entries get_irradiance was given for the selected scenario.
SelectedEntries ==
    locations_with_weather_and_solar[Scenarios[scenario.index].location]

\* The cell of the selected module of a given id.
CellOfId(cell_id) ==
    SelectedModule.pv_cells[CHOOSE j \in 1..Len(SelectedModule.pv_cells) :
                                SelectedModule.pv_cells[j].cell_id = cell_id]

\* The column that stands at the place of a cell's id in the frame of the
\* selected scenario, once sorted and relabelled.
ColumnAt(cell_id) == IrradianceFrame.columns[cell_id + 1]

\* The column at the place of the cell's id carries the header of the
\* cell's tilt and the series get_irradiance computed for the cell.
ColumnIsOfCell(pv_cell) ==
    /\ ColumnAt(pv_cell.cell_id).label.tilt = pv_cell.tilt
    /\ ColumnAt(pv_cell.cell_id).values =
          [i \in 1..Len(SelectedEntries) |-> GetIrradiance(pv_cell, SelectedEntries[i])]

\* C21: for every cell of the selected module that calculate_cell_iv_curve
\* was called for, and every cell a bar was drawn for, the irradiance used
\* is 1000 times what get_irradiance computed for that cell at
\* time_of_day, and the column at the place of the cell's id has the
\* header of that cell's tilt and the series computed for that cell.
C21_IrradianceAlignment ==
    /\ \A c \in 1..Len(cell_calls) :
          LET pv_cell == CellOfId(cell_calls[c].cell_id)
          IN  /\ cell_calls[c].solar_irradiance =
                    <<1000, GetIrradiance(pv_cell, SelectedEntries[TimeOfDayRow])>>
              /\ ColumnIsOfCell(pv_cell)
    /\ \A b \in 1..Len(bars) :
          LET pv_cell == CellOfId(bars[b].cell_id)
          IN  /\ bars[b].height =
                    <<1000, GetIrradiance(pv_cell, SelectedEntries[TimeOfDayRow])>>
              /\ ColumnIsOfCell(pv_cell)

\* ---------------------------------------------------------------- C22
\* The largest short-circuit current of the cells of the selected module.
LargestShortCircuitCurrent ==
    CHOOSE m \in {SelectedModule.pv_cells[j].short_circuit_current :
                     j \in 1..Len(SelectedModule.pv_cells)} :
        \A j \in 1..Len(SelectedModule.pv_cells) :
            SelectedModule.pv_cells[j].short_circuit_current <= m

====
